---- MODULE Spec2Model ----
(***************************************************************************)
(* Session-runtime cache, admission gate and streaming bridge of the       *)
(* agent server (backend/setry/agent.py, utils.py, tools.py).              *)
(*                                                                         *)
(* Python's None is the empty tuple and a present value x is <<x>>, so an  *)
(* Optional[T] is a tuple of length 0 or 1.  hashlib.md5 is modelled as a  *)
(* collision-free tag <<"md5", text>> over the text it is applied to.      *)
(***************************************************************************)
EXTENDS Integers, Sequences, FiniteSets, TLC

(***************************************************************************)
(* Bounds of the model.                                                    *)
(***************************************************************************)
MaxBuilds == 3
MaxReq == 2
MaxItems == 2
MaxNames == 2

(***************************************************************************)
(* Optional values and small helpers.                                      *)
(***************************************************************************)
None == <<>>
Some(x) == <<x>>
IsNone(o) == Len(o) = 0
Range(s) == {s[i] : i \in 1..Len(s)}
MinOf(S) == CHOOSE m \in S : \A n \in S : m <= n

(***************************************************************************)
(* Program constants.                                                      *)
(***************************************************************************)
\* agent.py:41  ALL_AVAILABLE_TOOLS = [add_threats, edit_threats, delete_threats]
ALL_AVAILABLE_TOOLS == <<"add_threats", "edit_threats", "delete_threats">>
\* agent.py:44  TOOL_NAME_MAP = {tool.name: tool for tool in ALL_AVAILABLE_TOOLS}
\* (a tool object is identified by its registered name)
TOOL_NAME_MAP == [n \in Range(ALL_AVAILABLE_TOOLS) |-> n]
\* agent.py:278  executor = ThreadPoolExecutor(max_workers=2)
MaxWorkers == 2
\* agent.py:47  request_semaphore = asyncio.Semaphore(1)
Permits == 1

(***************************************************************************)
(* str.lower() and the ordering of strings used by sorted(), on the names  *)
(* that occur in the model.                                                *)
(***************************************************************************)
Lower(s) ==
  CASE s = "ADD_THREATS" -> "add_threats"
    [] s = "Edit_Threats" -> "edit_threats"
    [] OTHER -> s

\* position of a lower-case name in lexicographic order
StrRank(s) ==
  CASE s = "a" -> 1
    [] s = "add_threats" -> 2
    [] s = "b" -> 3
    [] s = "delete_threats" -> 4
    [] s = "edit_threats" -> 5
    [] OTHER -> 6

RECURSIVE InsertSorted(_, _)
InsertSorted(x, s) ==
  IF s = <<>> THEN <<x>>
  ELSE IF StrRank(x) <= StrRank(Head(s)) THEN <<x>> \o s
  ELSE <<Head(s)>> \o InsertSorted(x, Tail(s))

RECURSIVE sorted(_)
sorted(s) == IF s = <<>> THEN <<>> ELSE InsertSorted(Head(s), sorted(Tail(s)))

Md5(text) == <<"md5", text>>

(***************************************************************************)
(* utils.py: fingerprint tokens.                                           *)
(***************************************************************************)
\* a context (dict) is the sequence of its <<key, value>> pairs in insertion
\* order; json.dumps(context, sort_keys=True) orders the pairs by key
RECURSIVE InsertByKey(_, _)
InsertByKey(kv, s) ==
  IF s = <<>> THEN <<kv>>
  ELSE IF StrRank(kv[1]) <= StrRank(Head(s)[1]) THEN <<kv>> \o s
  ELSE <<Head(s)>> \o InsertByKey(kv, Tail(s))

RECURSIVE json_dumps_sorted(_)
json_dumps_sorted(d) ==
  IF d = <<>> THEN <<>> ELSE InsertByKey(Head(d), json_dumps_sorted(Tail(d)))

get_context_hash(context) ==
  IF IsNone(context) THEN <<"no_context">>
  ELSE Md5(json_dumps_sorted(context[1]))

\* the key that is the same for every reference
get_diagram_hash_one_key(diagram_path) ==
  IF IsNone(diagram_path) THEN <<"no_diagram">> ELSE Md5("")

get_diagram_hash(diagram_path) ==
  IF IsNone(diagram_path) THEN <<"no_diagram">>
  ELSE Md5(diagram_path[1])

get_tools_hash(tools) == Md5(sorted(tools))

(***************************************************************************)
(* utils.py: get_tools_for_preferences.                                    *)
(***************************************************************************)
\* one iteration of the loop over tool_preferences: the tools appended to
\* selected_tools for one requested name (zero or one)
MatchTool_exact_only(tool_name) ==
  IF tool_name \in DOMAIN TOOL_NAME_MAP THEN <<TOOL_NAME_MAP[tool_name]>>
  ELSE <<>>

MatchTool(tool_name) ==
  IF tool_name \in DOMAIN TOOL_NAME_MAP THEN <<TOOL_NAME_MAP[tool_name]>>
  ELSE LET hits == {i \in 1..Len(ALL_AVAILABLE_TOOLS) :
                      Lower(ALL_AVAILABLE_TOOLS[i]) = Lower(tool_name)}
       IN IF hits = {} THEN <<>>
          ELSE <<TOOL_NAME_MAP[ALL_AVAILABLE_TOOLS[MinOf(hits)]]>>

RECURSIVE SelectTools(_)
SelectTools(names) ==
  IF names = <<>> THEN <<>>
  ELSE MatchTool(Head(names)) \o SelectTools(Tail(names))

\* the seen/unique_tools loop: keeps the first occurrence of every tool
UniqueTools_keep_all(s, seen) == s

RECURSIVE UniqueTools(_, _)
UniqueTools(s, seen) ==
  IF s = <<>> THEN <<>>
  ELSE IF Head(s) \in seen THEN UniqueTools(Tail(s), seen)
  ELSE <<Head(s)>> \o UniqueTools(Tail(s), seen \cup {Head(s)})

get_tools_for_preferences(tool_preferences) ==
  IF IsNone(tool_preferences) \/ tool_preferences[1] = <<>>
  THEN ALL_AVAILABLE_TOOLS
  ELSE LET selected_tools == SelectTools(tool_preferences[1])
       IN IF selected_tools = <<>> THEN ALL_AVAILABLE_TOOLS
          ELSE UniqueTools(selected_tools, {})

(***************************************************************************)
(* State.                                                                  *)
(***************************************************************************)
VARIABLES
  phase,                     \* "init" before lifespan startup, "serving", "down"
  cached_agent,              \* agent.py:30, Optional runtime
  current_tool_preferences,  \* agent.py:31
  current_tools_hash,        \* agent.py:32
  current_context,           \* agent.py:33
  current_context_hash,      \* agent.py:34
  current_diagram_hash,      \* agent.py:36
  current_diagram_data,      \* agent.py:37
  current_budget_level,      \* agent.py:38
  diagram_cache,             \* utils.py:170
  builds,                    \* number of create_react_agent calls so far
  last                       \* outcome of the latest get_agent_with_preferences

cacheVars == <<cached_agent, current_tool_preferences, current_tools_hash,
               current_context, current_context_hash, current_diagram_hash,
               current_diagram_data, current_budget_level, diagram_cache>>
ghostVars == <<builds, last>>

(***************************************************************************)
(* State of the admission gate and of the streaming requests.              *)
(***************************************************************************)
VARIABLES
  sem,        \* request_semaphore._value
  rpc,        \* per request: where its streaming_invoke generator stands
  rq,         \* per request: the facets it carries, kept until its thread
              \* has called the runtime (nothing reads them afterwards)
  worker,     \* per request: where its process_stream thread stands
  puts,       \* per request: every entry process_stream has handed over
  queue,      \* per request: the asyncio.Queue of the bridge, with the
              \* queue.put calls scheduled on the loop at its tail
  observed,   \* per request: items yielded by async_stream_generator
  events      \* per request: client events yielded by streaming_invoke

\* The latest call made from outside that is answered on the spot: the
\* function or handler, its argument, what it returned, and the value of
\* the permit counter at that moment.
VARIABLE call

NoCall == [fn |-> "", arg |-> <<>>, ret |-> <<>>, sem |-> Permits]

Req == 1..MaxReq
streamVars == <<sem, rpc, rq, worker, puts, queue, observed, events>>

NoFacets == [prefs |-> None, context |-> None, diagram |-> None, budget |-> None]

InitStream ==
  /\ sem = Permits
  /\ rpc = [r \in Req |-> "idle"]
  /\ rq = [r \in Req |-> NoFacets]
  /\ worker = [r \in Req |-> "none"]
  /\ puts = [r \in Req |-> <<>>]
  /\ queue = [r \in Req |-> <<>>]
  /\ observed = [r \in Req |-> <<>>]
  /\ events = [r \in Req |-> <<>>]

(***************************************************************************)
(* Collaborators: their possible outcomes.                                 *)
(***************************************************************************)
\* ChatBedrockConverse(**config), system_prompt(...), create_react_agent(...)
\* each either return or raise
BuildOutcomes == {"ok", "llm_fail", "prompt_fail", "build_fail"}
\* s3_client.get_object(...) and the read of its body: a payload ("ok"), or
\* an exception or an empty payload ("fail": both return None from the same
\* place, before anything is stored)
FetchOutcomes == {"ok", "fail"}

\* truthiness of an Optional[str] / Optional[dict]
TruthyStr(o) == ~IsNone(o) /\ o[1] # ""
TruthyDict(o) == ~IsNone(o) /\ o[1] # <<>>

\* the argument handed to system_prompt: the context if truthy, else {}
PromptContext(context) == IF TruthyDict(context) THEN context[1] ELSE <<>>

\* the object returned by create_react_agent; id makes instances distinct
NewAgent(id, tools, context, llm) ==
  [id |-> id, tools |-> tools, prompt |-> PromptContext(context), tier |-> llm]

\* utils.py:258-276: the media type written into the data URL of a fetched
\* diagram.  A content type is its part before the slash and the rest; an
\* S3 key is its stem and its extension (the suffix endswith looks at).
ContentType(kind, sub) == [kind |-> kind, sub |-> sub]
S3Key(stem, ext) == [stem |-> stem, ext |-> ext]
\* str.lower on the extensions of the model
LowerExt(ext) ==
  CASE ext = ".PNG" -> ".png"
    [] ext = ".Jpg" -> ".jpg"
    [] ext = ".WebP" -> ".webp"
    [] OTHER -> ext
\* response.get('ContentType', 'image/jpeg'), then the inference from the
\* key when the type is not an image type
content_type_of(response_type, s3_key) ==
  LET content_type == IF IsNone(response_type)
                      THEN ContentType("image", "jpeg")
                      ELSE response_type[1]
      ext == LowerExt(s3_key.ext)
  IN IF content_type.kind # "image"
        \/ content_type = ContentType("application", "octet-stream")
     THEN CASE ext \in {".jpg", ".jpeg"} -> ContentType("image", "jpeg")
            [] ext = ".png" -> ContentType("image", "png")
            [] ext = ".gif" -> ContentType("image", "gif")
            [] ext = ".webp" -> ContentType("image", "webp")
            [] ext = ".bmp" -> ContentType("image", "bmp")
            [] OTHER -> ContentType("image", "jpeg")
     ELSE content_type

\* the entry stored for a fetched diagram
CachedData(diagram_path) == [type |-> "image_url", url |-> diagram_path]

(***************************************************************************)
(* utils.py: download_and_cache_diagram.  Result: the returned Optional    *)
(* data, the diagram cache afterwards, and whether the fetch collaborator  *)
(* was called.                                                             *)
(***************************************************************************)
\* the resolution without the lookup of the cache
download_always_fetches(diagram_path, cache, fetch) ==
  LET cache_key == get_diagram_hash(Some(diagram_path))
  IN IF diagram_path = "" THEN [data |-> None, cache |-> cache, called |-> FALSE]
     ELSE IF fetch = "ok"
     THEN [data |-> Some(CachedData(diagram_path)), called |-> TRUE,
           cache |-> [k \in DOMAIN cache \cup {cache_key} |->
                        IF k = cache_key THEN CachedData(diagram_path)
                        ELSE cache[k]]]
     ELSE [data |-> None, cache |-> cache, called |-> TRUE]

\* the resolution storing an entry whatever the fetch returned
download_caches_failures(diagram_path, cache, fetch) ==
  LET cache_key == get_diagram_hash(Some(diagram_path))
  IN IF diagram_path = "" THEN [data |-> None, cache |-> cache, called |-> FALSE]
     ELSE IF cache_key \in DOMAIN cache
     THEN [data |-> Some(cache[cache_key]), cache |-> cache, called |-> FALSE]
     ELSE [data |-> IF fetch = "ok" THEN Some(CachedData(diagram_path)) ELSE None,
           called |-> TRUE,
           cache |-> [k \in DOMAIN cache \cup {cache_key} |->
                        IF k = cache_key THEN CachedData(diagram_path)
                        ELSE cache[k]]]

download_and_cache_diagram(diagram_path, cache, fetch) ==
  LET cache_key == get_diagram_hash(Some(diagram_path))
  IN IF diagram_path = "" THEN [data |-> None, cache |-> cache, called |-> FALSE]
     ELSE IF cache_key \in DOMAIN cache
     THEN [data |-> Some(cache[cache_key]), cache |-> cache, called |-> FALSE]
     ELSE IF fetch = "ok"
     THEN [data |-> Some(CachedData(diagram_path)), called |-> TRUE,
           cache |-> [k \in DOMAIN cache \cup {cache_key} |->
                        IF k = cache_key THEN CachedData(diagram_path)
                        ELSE cache[k]]]
     ELSE [data |-> None, cache |-> cache, called |-> TRUE]

(***************************************************************************)
(* utils.py: get_or_create_agent.                                          *)
(***************************************************************************)
needs_update_stale(tool_preferences, new_tools_hash, new_context_hash, new_diagram_hash, agent) ==
  \/ current_tool_preferences # tool_preferences
  \/ current_tools_hash # new_tools_hash
  \/ current_diagram_hash # new_diagram_hash
  \/ IsNone(agent)

needs_update(tool_preferences, new_tools_hash, new_context_hash, new_diagram_hash, agent) ==
  \/ current_tool_preferences # tool_preferences
  \/ current_tools_hash # new_tools_hash
  \/ current_context_hash # new_context_hash
  \/ current_diagram_hash # new_diagram_hash
  \/ IsNone(agent)

\* Result record: raised (the call raised), built (1 iff create_react_agent
\* was called), cache (diagram_cache afterwards), asked (the reference the
\* diagram cache was resolved for, if it was), fetch (the outcome of the fetch
\* collaborator, "none" if it was not called) and the seven returned values.
\* the build that gives up when the artifact could not be fetched
get_or_create_agent_fetch_fatal(tool_preferences, context, diagram_path, llm, agent, out, fetch) ==
  LET new_tools == get_tools_for_preferences(tool_preferences)
      new_tools_hash == get_tools_hash(new_tools)
      new_context_hash == get_context_hash(context)
      new_diagram_hash == get_diagram_hash(diagram_path)
      dl == IF TruthyStr(diagram_path)
            THEN download_and_cache_diagram(diagram_path[1], diagram_cache, fetch)
            ELSE [data |-> None, cache |-> diagram_cache, called |-> FALSE]
      asked == IF TruthyStr(diagram_path) THEN diagram_path ELSE None
      fetched == IF dl.called THEN fetch ELSE "none"
      kept == [agent |-> agent, prefs |-> current_tool_preferences,
               tools_hash |-> current_tools_hash,
               context_hash |-> current_context_hash,
               diagram_hash |-> current_diagram_hash,
               context |-> current_context]
  IN IF needs_update(tool_preferences, new_tools_hash, new_context_hash,
                     new_diagram_hash, agent)
     THEN IF out = "prompt_fail" \/ fetched = "fail"
          THEN [raised |-> TRUE, built |-> 0, cache |-> dl.cache,
                asked |-> asked, fetch |-> fetched,
                data |-> None, ret |-> kept]
          ELSE IF out = "build_fail"
          THEN [raised |-> TRUE, built |-> 1, cache |-> dl.cache,
                asked |-> asked, fetch |-> fetched,
                data |-> None, ret |-> kept]
          ELSE [raised |-> FALSE, built |-> 1, cache |-> dl.cache,
                asked |-> asked, fetch |-> fetched,
                data |-> dl.data,
                ret |-> [agent |-> Some(NewAgent(builds + 1, new_tools, context, llm)),
                         prefs |-> tool_preferences,
                         tools_hash |-> new_tools_hash,
                         context_hash |-> new_context_hash,
                         diagram_hash |-> new_diagram_hash,
                         context |-> context]]
     ELSE [raised |-> FALSE, built |-> 0, cache |-> diagram_cache,
           asked |-> None, fetch |-> "none",
           data |-> IF TruthyStr(diagram_path)
                       /\ get_diagram_hash(diagram_path) \in DOMAIN diagram_cache
                    THEN Some(diagram_cache[get_diagram_hash(diagram_path)])
                    ELSE None,
           ret |-> kept]

get_or_create_agent(tool_preferences, context, diagram_path, llm, agent, out, fetch) ==
  LET new_tools == get_tools_for_preferences(tool_preferences)
      new_tools_hash == get_tools_hash(new_tools)
      new_context_hash == get_context_hash(context)
      new_diagram_hash == get_diagram_hash(diagram_path)
      dl == IF TruthyStr(diagram_path)
            THEN download_and_cache_diagram(diagram_path[1], diagram_cache, fetch)
            ELSE [data |-> None, cache |-> diagram_cache, called |-> FALSE]
      asked == IF TruthyStr(diagram_path) THEN diagram_path ELSE None
      fetched == IF dl.called THEN fetch ELSE "none"
      kept == [agent |-> agent, prefs |-> current_tool_preferences,
               tools_hash |-> current_tools_hash,
               context_hash |-> current_context_hash,
               diagram_hash |-> current_diagram_hash,
               context |-> current_context]
  IN IF needs_update(tool_preferences, new_tools_hash, new_context_hash,
                     new_diagram_hash, agent)
     THEN IF out = "prompt_fail"
          THEN [raised |-> TRUE, built |-> 0, cache |-> dl.cache,
                asked |-> asked, fetch |-> fetched,
                data |-> None, ret |-> kept]
          ELSE IF out = "build_fail"
          THEN [raised |-> TRUE, built |-> 1, cache |-> dl.cache,
                asked |-> asked, fetch |-> fetched,
                data |-> None, ret |-> kept]
          ELSE [raised |-> FALSE, built |-> 1, cache |-> dl.cache,
                asked |-> asked, fetch |-> fetched,
                data |-> dl.data,
                ret |-> [agent |-> Some(NewAgent(builds + 1, new_tools, context, llm)),
                         prefs |-> tool_preferences,
                         tools_hash |-> new_tools_hash,
                         context_hash |-> new_context_hash,
                         diagram_hash |-> new_diagram_hash,
                         context |-> context]]
     ELSE [raised |-> FALSE, built |-> 0, cache |-> diagram_cache,
           asked |-> None, fetch |-> "none",
           data |-> IF TruthyStr(diagram_path)
                       /\ get_diagram_hash(diagram_path) \in DOMAIN diagram_cache
                    THEN Some(diagram_cache[get_diagram_hash(diagram_path)])
                    ELSE None,
           ret |-> kept]

(***************************************************************************)
(* agent.py: create_model_config.  The configuration is the record of its  *)
(* max_tokens and of the two additional_model_request_fields, absent       *)
(* (None) when the key is not set.                                         *)
(***************************************************************************)
budget_mapping == [l \in {1, 2, 3} |-> CASE l = 1 -> 8000 [] l = 2 -> 16000 [] l = 3 -> 31999]

create_model_config_wide_default(budget_level) ==
  IF budget_level = 0
  THEN [max_tokens |-> 64000, thinking |-> None, anthropic_beta |-> None]
  ELSE [max_tokens |-> 64000,
        thinking |-> Some([type |-> "enabled",
                           budget_tokens |->
                             IF budget_level \in DOMAIN budget_mapping
                             THEN budget_mapping[budget_level] ELSE 16000]),
        anthropic_beta |-> Some(<<"interleaved-thinking-2025-05-14">>)]

create_model_config(budget_level) ==
  IF budget_level = 0
  THEN [max_tokens |-> 64000, thinking |-> None, anthropic_beta |-> None]
  ELSE [max_tokens |-> 64000,
        thinking |-> Some([type |-> "enabled",
                           budget_tokens |->
                             IF budget_level \in DOMAIN budget_mapping
                             THEN budget_mapping[budget_level] ELSE 8000]),
        anthropic_beta |-> Some(<<"interleaved-thinking-2025-05-14">>)]

(***************************************************************************)
(* agent.py: get_agent_with_preferences.  The coroutine never yields to    *)
(* the event loop (download_and_cache_diagram awaits nothing), so one call *)
(* is one step.                                                            *)
(***************************************************************************)
FailedResolution ==
  [ok |-> FALSE, prefs |-> None, tools |-> <<>>, context |-> None,
   diagram |-> None, tier |-> 0, agent |-> None,
   asked |-> None, fetch |-> "none"]

get_agent_with_preferences(tool_preferences, context, diagram_path, budget_level, out, fetch) ==
  LET budget_level_changed == current_budget_level # budget_level
      agent0 == IF budget_level_changed THEN None ELSE cached_agent
      r == get_or_create_agent(tool_preferences, context, diagram_path,
                               budget_level, agent0, out, fetch)
  IN /\ current_budget_level' = budget_level
     /\ IF out = "llm_fail"
        THEN /\ cached_agent' = agent0
             /\ builds' = builds
             /\ last' = FailedResolution
             /\ UNCHANGED <<current_tool_preferences, current_tools_hash,
                            current_context, current_context_hash,
                            current_diagram_hash, current_diagram_data,
                            diagram_cache>>
        ELSE IF r.raised
        THEN /\ cached_agent' = agent0
             /\ builds' = builds + r.built
             /\ diagram_cache' = r.cache
             /\ last' = [FailedResolution EXCEPT !.asked = r.asked,
                                                !.fetch = r.fetch]
             /\ UNCHANGED <<current_tool_preferences, current_tools_hash,
                            current_context, current_context_hash,
                            current_diagram_hash, current_diagram_data>>
        ELSE /\ cached_agent' = r.ret.agent
             /\ current_tool_preferences' = r.ret.prefs
             /\ current_tools_hash' = r.ret.tools_hash
             /\ current_context_hash' = r.ret.context_hash
             /\ current_diagram_hash' = r.ret.diagram_hash
             /\ current_diagram_data' = r.data
             /\ current_context' = r.ret.context
             /\ diagram_cache' = r.cache
             /\ builds' = builds + r.built
             /\ last' = [ok |-> TRUE, prefs |-> tool_preferences,
                         tools |-> get_tools_for_preferences(tool_preferences),
                         context |-> context, diagram |-> diagram_path,
                         tier |-> budget_level, agent |-> r.ret.agent,
                         asked |-> r.asked, fetch |-> r.fetch]

(***************************************************************************)
(* Inputs of the cache specification.                                      *)
(***************************************************************************)
ToolPreferences ==
  {None,
   Some(<<"add_threats">>), Some(<<"ADD_THREATS">>),
   Some(<<"add_threats", "edit_threats">>),
   Some(<<"not_a_real_tool">>)}
ContextA == <<<<"a", "x">>>>
Contexts == {None, Some(ContextA)}
DiagramPaths == {None, Some("a.png")}
BudgetLevels == {0, 1, 2}
\* the "budget_level" field of a request: absent, or an integer
BudgetFields == {None} \cup {Some(b) : b \in BudgetLevels}

\* the fetch collaborator is only called for a truthy path that is not cached
FetchChoices(diagram_path) ==
  IF TruthyStr(diagram_path)
     /\ get_diagram_hash(diagram_path) \notin DOMAIN diagram_cache
  THEN FetchOutcomes ELSE {"ok"}

(***************************************************************************)
(* agent.py: lifespan startup and the "prepare" branch of invoke.          *)
(***************************************************************************)
Init ==
  /\ phase = "init"
  /\ cached_agent = None
  /\ current_tool_preferences = None
  /\ current_tools_hash = None
  /\ current_context = None
  /\ current_context_hash = None
  /\ current_diagram_hash = None
  /\ current_diagram_data = None
  /\ current_budget_level = 0
  /\ diagram_cache = [k \in {} |-> None]
  /\ builds = 0
  /\ last = FailedResolution
  /\ InitStream
  /\ call = NoCall

\* lifespan: get_agent_with_preferences(None, None, None, 1); a failure is
\* re-raised and the application does not come up
Startup ==
  /\ phase = "init"
  /\ \E out \in BuildOutcomes :
       /\ get_agent_with_preferences(None, None, None, 1, out, "ok")
       /\ phase' = IF out = "ok" THEN "serving" ELSE "down"
  /\ UNCHANGED <<streamVars, call>>

PrepareWith_takes_permit(prefs, ctxs, paths, fields, outs) ==
  /\ phase = "serving"
  /\ builds < MaxBuilds
  /\ \E tp \in prefs, ctx \in ctxs, dp \in paths, bf \in fields :
       IF IsNone(bf)
       THEN UNCHANGED <<cacheVars, ghostVars>>
       ELSE \E out \in outs, fetch \in FetchChoices(dp) :
              get_agent_with_preferences(tp, ctx, dp, bf[1], out, fetch)
  /\ sem' = 0
  /\ UNCHANGED <<phase, call, rpc, rq, worker, puts, queue, observed, events>>

\* invoke, request_type == "prepare"
PrepareWith(prefs, ctxs, paths, fields, outs) ==
  /\ phase = "serving"
  /\ builds < MaxBuilds
  /\ \E tp \in prefs, ctx \in ctxs, dp \in paths, bf \in fields :
       IF IsNone(bf)
       THEN \* extract_budget_level: int(None) raises TypeError, which the
            \* handler answers with prepare_error
            UNCHANGED <<cacheVars, ghostVars>>
       ELSE \E out \in outs, fetch \in FetchChoices(dp) :
              get_agent_with_preferences(tp, ctx, dp, bf[1], out, fetch)
  /\ UNCHANGED <<phase, call, streamVars>>

Prepare == PrepareWith(ToolPreferences, Contexts, DiagramPaths, BudgetFields, BuildOutcomes)

(***************************************************************************)
\* prepare requests whose collaborators other than the fetch all return
PrepareBuilt == PrepareWith(ToolPreferences, Contexts, DiagramPaths, BudgetFields, {"ok"})

\* prepare requests that differ in the diagram reference, two references
ArtifactPaths == {None, Some("a.png"), Some("b.png")}
PrepareArtifact == PrepareWith({None}, Contexts, ArtifactPaths, {Some(1), Some(2)}, BuildOutcomes)

(* Raw items of cached_agent.stream(..., stream_mode=["messages",          *)
(* "updates"]) and the queue entries of the bridge.  A content is a str    *)
(* (kind "str") or a list of typed items (kind "list").                    *)
(***************************************************************************)
NoItem == [type |-> "", name |-> "", text |-> ""]
StrContent(t) == [kind |-> "str", str |-> t, first |-> NoItem, n |-> 0]
ListContent(it) == [kind |-> "list", str |-> "", first |-> it, n |-> 1]
EmptyList == [kind |-> "list", str |-> "", first |-> NoItem, n |-> 0]

RawItem(mode, interrupt, stop, tool, name, status, content) ==
  [mode |-> mode, interrupt |-> interrupt, stopReason |-> stop,
   isToolMessage |-> tool, name |-> name, status |-> status,
   content |-> content]

Chunk(stop, content) == RawItem("messages", None, stop, FALSE, "", "", content)
ToolMsg(name, status, content) ==
  RawItem("messages", None, "", TRUE, name, status, content)
Update(interrupt) == RawItem("updates", interrupt, "", FALSE, "", "", EmptyList)
\* the terminal entries process_stream puts: ("error", e) and ("done", None)
ErrorMarker == RawItem("error", None, "", FALSE, "", "", EmptyList)
DoneMarker == RawItem("done", None, "", FALSE, "", "", EmptyList)

TextChunk == Chunk("", ListContent([type |-> "text", name |-> "", text |-> "hi"]))
ToolUseChunk ==
  Chunk("tool_use", ListContent([type |-> "tool_use", name |-> "add_threats", text |-> ""]))
PlainTextChunk == Chunk("", StrContent("hello"))
PlainUpdate == Update(None)

\* json.loads on the texts of the model: the parsed value, or none when
\* JSONDecodeError is raised
JsonTexts == {"{}"}
json_loads(t) == IF t \in JsonTexts THEN Some(<<"json", t>>) ELSE None

\* not chunk.content
Falsy(content) ==
  IF content.kind = "str" THEN content.str = "" ELSE content.n = 0

(***************************************************************************)
(* agent.py:390-440, the body of the async for loop of streaming_invoke:   *)
(* <<"yield", event>>, <<"skip">> when nothing is yielded, <<"raise">>     *)
(* when the body raises.                                                   *)
(***************************************************************************)
Classify(item) ==
  IF item.mode = "updates" /\ ~IsNone(item.interrupt)
  THEN <<"yield", <<"interrupt", item.interrupt[1]>>>>
  ELSE IF item.mode # "messages" THEN <<"skip">>
  ELSE IF item.stopReason = "end_turn" THEN <<"yield", <<"end">>>>
  ELSE IF Falsy(item.content) THEN <<"skip">>
  ELSE IF item.isToolMessage
  THEN IF item.content.kind # "str"
       THEN <<"raise">>   \* json.loads of a list: TypeError
       ELSE <<"yield", <<"tool", item.name, FALSE,
                         IF IsNone(json_loads(item.content.str))
                         THEN <<"raw", item.content.str>>
                         ELSE json_loads(item.content.str)[1],
                         item.status = "error">>>>
  ELSE IF item.content.kind = "str"
  THEN <<"raise">>        \* chunk.content[0] is a str: it has no .get
  ELSE LET content == item.content.first
       IN IF content.type = "tool_use" /\ content.name # ""
          THEN <<"yield", <<"tool", content.name, TRUE>>>>
          ELSE IF content.type = "text"
          THEN <<"yield", <<"text", content.text>>>>
          ELSE IF content.type = "reasoning_content"
          THEN <<"yield", <<"thinking", content.text>>>>
          ELSE <<"skip">>

ErrorEvent(why) == <<"error", why>>

IsTerminal(e) == e.mode \in {"error", "done"}
\* the items the producer emitted, and whether it failed
Emitted(r) == SelectSeq(puts[r], LAMBDA e : ~IsTerminal(e))
Failed(r) == \E i \in 1..Len(puts[r]) : puts[r][i].mode = "error"

\* asyncio.Semaphore
locked_never == FALSE

locked == sem = 0
release(v) == v + 1

\* states in which async_stream_generator still reads the queue
Reading == {"streaming", "joining"}
\* states in which the generator is inside "async with request_semaphore"
InGate == {"streaming", "joining", "yield_error"}
\* states in which the thread of process_stream exists and has not returned
Alive == {"running", "returning"}


(***************************************************************************)
(* Inputs of the streaming specification.                                  *)
(***************************************************************************)
StreamItems == {TextChunk, PlainUpdate, PlainTextChunk}
HeavyPreferences == {None}
HeavyContexts == {None}
HeavyPaths == {None}
HeavyFields == {None, Some(2)}
\* outcomes of the collaborators in the streaming specification
HeavyOutcomes == {"ok", "prompt_fail"}

PrepareSmall == PrepareWith(HeavyPreferences, HeavyContexts, HeavyPaths, {Some(2)}, HeavyOutcomes)

(***************************************************************************)
(* agent.py:282-338, streaming_invoke from its first resumption up to the  *)
(* first point where the generator is suspended.                           *)
(***************************************************************************)
\* the generator enters the bridge: run_in_executor(process_stream), then
\* it waits in queue.get()
EnterBridge(r) ==
  /\ rpc' = [rpc EXCEPT ![r] = "streaming"]
  /\ worker' = [worker EXCEPT ![r] = "queued"]
  /\ UNCHANGED events

\* the except clause of streaming_invoke: yield {'error': str(e)}
YieldError(r, why) ==
  /\ rpc' = [rpc EXCEPT ![r] = "yield_error"]
  /\ events' = [events EXCEPT ![r] = Append(@, ErrorEvent(why))]

\* (requests are numbered in the order of their arrival)
StreamArrive(r) ==
  /\ phase = "serving"
  /\ rpc[r] = "idle"
  /\ \A q \in Req : q < r => rpc[q] # "idle"
  /\ builds < MaxBuilds
  /\ \E tp \in HeavyPreferences, ctx \in HeavyContexts,
        dp \in HeavyPaths, bf \in HeavyFields :
       IF locked
       THEN \* HTTPException(429), turned into an error frame by sse_stream;
            \* the generator is finished
            /\ rpc' = [rpc EXCEPT ![r] = "busy"]
            /\ UNCHANGED <<sem, rq, worker, events, cacheVars, ghostVars>>
       ELSE IF sem <= 0
       THEN \* async with request_semaphore: acquire() waits for a permit
            /\ rpc' = [rpc EXCEPT ![r] = "waiting"]
            /\ UNCHANGED <<sem, rq, worker, events, cacheVars, ghostVars>>
       ELSE /\ sem' = sem - 1
            /\ rq' = [rq EXCEPT ![r] = [prefs |-> tp, context |-> ctx,
                                        diagram |-> dp, budget |-> bf]]
            /\ IF ~IsNone(cached_agent)
               THEN EnterBridge(r) /\ UNCHANGED <<cacheVars, ghostVars>>
               ELSE IF IsNone(bf)
               THEN \* extract_budget_level: int(None) raises TypeError
                    /\ YieldError(r, "TypeError")
                    /\ UNCHANGED <<worker, cacheVars, ghostVars>>
               ELSE \E out \in HeavyOutcomes, fetch \in FetchChoices(dp) :
                      /\ get_agent_with_preferences(tp, ctx, dp, bf[1], out, fetch)
                      /\ IF last'.ok
                         THEN EnterBridge(r)
                         ELSE YieldError(r, "build") /\ UNCHANGED worker
  /\ UNCHANGED <<phase, call, puts, queue, observed>>

(***************************************************************************)
(* agent.py:348-370, process_stream, run by a thread of the executor.      *)
(***************************************************************************)
\* asyncio.Queue.put on the unbounded queue
enqueue_front(q, e) == <<e>> \o q

enqueue(q, e) == Append(q, e)

\* asyncio.run_coroutine_threadsafe(queue.put(e), loop): the put is scheduled
\* on the loop, which runs scheduled callbacks in the order of scheduling, so
\* the scheduled puts and the queue form one FIFO
\* (entries for a queue whose reader is gone are not recorded)
Schedule(r, e) ==
  IF rpc[r] \in Reading
  THEN /\ puts' = [puts EXCEPT ![r] = Append(@, e)]
       /\ queue' = [queue EXCEPT ![r] = enqueue(@, e)]
  ELSE UNCHANGED <<puts, queue>>

\* the except clause and then the finally clause: ("error", e) and
\* ("done", None) are scheduled one after the other by the same thread; the
\* reader stops at the first of them
ScheduleBoth(r, e, f) ==
  IF rpc[r] \in Reading
  THEN /\ puts' = [puts EXCEPT ![r] = Append(Append(@, e), f)]
       /\ queue' = [queue EXCEPT ![r] = enqueue(enqueue(@, e), f)]
  ELSE UNCHANGED <<puts, queue>>

\* a free thread of the pool picks the work up and calls cached_agent.stream
WorkerStart(r) ==
  /\ worker[r] = "queued"
  /\ Cardinality({q \in Req : worker[q] \in Alive}) < MaxWorkers
  /\ IF IsNone(cached_agent)
     THEN \* None has no attribute stream: the except clause runs, then
          \* the finally clause
          /\ worker' = [worker EXCEPT ![r] = "returning"]
          /\ ScheduleBoth(r, ErrorMarker, DoneMarker)
     ELSE /\ worker' = [worker EXCEPT ![r] = "running"]
          /\ UNCHANGED <<puts, queue>>
  /\ rq' = [rq EXCEPT ![r] = NoFacets]
  /\ UNCHANGED <<phase, call, cacheVars, ghostVars, sem, rpc,
                 observed, events>>

\* one iteration of the for loop
WorkerEmit(r) ==
  /\ worker[r] = "running"
  /\ Len(Emitted(r)) < MaxItems
  /\ \E it \in StreamItems : Schedule(r, it)
  /\ UNCHANGED <<phase, call, cacheVars, ghostVars, sem, rpc, rq, worker,
                 observed, events>>

\* the loop ends without the finally clause handing anything over
WorkerExhaust_silent(r) ==
  /\ worker[r] = "running"
  /\ worker' = [worker EXCEPT ![r] = "returning"]
  /\ UNCHANGED <<phase, call, cacheVars, ghostVars, sem, rpc, rq, puts,
                 queue, observed, events>>

\* the stream is exhausted: the loop ends and the finally clause hands over
\* ("done", None)
WorkerExhaust(r) ==
  /\ worker[r] = "running"
  /\ worker' = [worker EXCEPT ![r] = "returning"]
  /\ Schedule(r, DoneMarker)
  /\ UNCHANGED <<phase, call, cacheVars, ghostVars, sem, rpc, rq,
                 observed, events>>

\* the stream raises: the except clause hands over ("error", e) and the
\* finally clause ("done", None)
WorkerFail(r) ==
  /\ worker[r] = "running"
  /\ worker' = [worker EXCEPT ![r] = "returning"]
  /\ ScheduleBoth(r, ErrorMarker, DoneMarker)
  /\ UNCHANGED <<phase, call, cacheVars, ghostVars, sem, rpc, rq,
                 observed, events>>

\* process_stream returns: the future of run_in_executor completes
WorkerReturn(r) ==
  /\ worker[r] = "returning"
  /\ worker' = [worker EXCEPT ![r] = "terminated"]
  /\ UNCHANGED <<phase, call, cacheVars, ghostVars, sem, rpc, rq, puts,
                 queue, observed, events>>

(***************************************************************************)
(* agent.py:376-444, the consumer side: async_stream_generator and the     *)
(* async for loop of streaming_invoke, from one queue.get() to the next    *)
(* suspension.                                                             *)
(***************************************************************************)
\* the bridge generator stops reading: its queue is unreachable from now on
DropQueue(r) == queue' = [queue EXCEPT ![r] = <<>>]

Consume(r) ==
  /\ rpc[r] = "streaming"
  /\ queue[r] # <<>>
  /\ LET e == Head(queue[r])
         c == Classify(e)
     IN IF e.mode = "done"
        THEN \* break, then await future
             /\ rpc' = [rpc EXCEPT ![r] = "joining"]
             /\ queue' = [queue EXCEPT ![r] = Tail(@)]
             /\ UNCHANGED <<observed, events>>
        ELSE IF e.mode = "error"
        THEN \* raise data, caught by the except clause of streaming_invoke
             /\ YieldError(r, "stream")
             /\ DropQueue(r)
             /\ UNCHANGED observed
        ELSE /\ observed' = [observed EXCEPT ![r] = Append(@, e)]
             /\ IF c[1] = "raise"
                THEN YieldError(r, "classify") /\ DropQueue(r)
                ELSE /\ events' = [events EXCEPT ![r] =
                           IF c[1] = "yield" THEN Append(@, c[2]) ELSE @]
                     /\ queue' = [queue EXCEPT ![r] = Tail(@)]
                     /\ UNCHANGED rpc
  /\ UNCHANGED <<phase, call, cacheVars, ghostVars, sem, rq, worker, puts>>

\* the generator of the request has ended: the request, its queue and the
\* record of its stream are gone; the permit goes back
Leave(r, how) ==
  /\ rpc' = [rpc EXCEPT ![r] = how]
  /\ sem' = release(sem)
  /\ rq' = [rq EXCEPT ![r] = NoFacets]
  /\ DropQueue(r)
  /\ puts' = [puts EXCEPT ![r] = <<>>]
  /\ observed' = [observed EXCEPT ![r] = <<>>]
  /\ events' = [events EXCEPT ![r] = <<>>]
  /\ UNCHANGED <<phase, call, cacheVars, ghostVars, worker>>

\* await future returns once process_stream has returned; the generator
\* then leaves "async with" and ends
Join(r) ==
  /\ rpc[r] = "joining"
  /\ worker[r] = "terminated"
  /\ Leave(r, "closed")

\* the generator is resumed after the error event, leaves "async with" and ends
Finish(r) ==
  /\ rpc[r] = "yield_error"
  /\ Leave(r, "failed")

Abandon_keeps_permit(r) ==
  /\ rpc[r] \in {"streaming", "joining"}
  /\ rpc' = [rpc EXCEPT ![r] = "abandoned"]
  /\ rq' = [rq EXCEPT ![r] = NoFacets]
  /\ DropQueue(r)
  /\ puts' = [puts EXCEPT ![r] = <<>>]
  /\ observed' = [observed EXCEPT ![r] = <<>>]
  /\ events' = [events EXCEPT ![r] = <<>>]
  /\ UNCHANGED <<phase, call, cacheVars, ghostVars, worker, sem>>

\* the client goes away: the generator is cancelled (CancelledError in
\* queue.get() or in await future, GeneratorExit at a yield), "async with"
\* releases the permit on the way out; nothing stops or awaits the thread
Abandon(r) ==
  /\ rpc[r] \in {"streaming", "joining"}
  /\ Leave(r, "abandoned")

(***************************************************************************)
(* agent.py:170-198, invoke: the check of the session header, and the      *)
(* request types answered with a JSONResponse without a resolution.        *)
(* "prepare" with a budget level and the streaming types with a header     *)
(* are the actions above.                                                  *)
(***************************************************************************)
\* a call answered on the spot changes nothing but the record of the call
Answer(fn, arg, ret) ==
  /\ call' = [fn |-> fn, arg |-> arg, ret |-> ret, sem |-> sem]
  /\ UNCHANGED <<phase, cacheVars, ghostVars, streamVars>>

RequestTypes == {"ping", "tools", "history", "prepare", "chat", "resume_interrupt"}
SessionHeaders == {None, Some(""), Some("s1")}

session_ok_any(session_header) == TRUE

\* not (not session_header)
session_ok(session_header) == TruthyStr(session_header)

\* utils.py:479-486; without a runtime agent.get_state_history raises
get_history(agent) ==
  IF IsNone(agent) THEN <<"AttributeError">> ELSE <<"history", agent[1].id>>

Invoke ==
  /\ phase = "serving"
  /\ \E session_header \in SessionHeaders, request_type \in RequestTypes :
       IF ~session_ok(session_header)
       THEN Answer("invoke", <<session_header, request_type>>,
                     <<"MissingHeader">>)
       ELSE \/ /\ request_type \in {"ping", "tools", "history"}
               /\ Answer("invoke", <<session_header, request_type>>,
                           CASE request_type = "ping" -> <<"pong">>
                             [] request_type = "tools" ->
                                  <<"available_tools", ALL_AVAILABLE_TOOLS>>
                             [] request_type = "history" ->
                                  get_history(cached_agent))
            \/ \* a prepare request without "budget_level" (the third
               \* argument): extract_budget_level raises TypeError on
               \* int(None) before anything is resolved, and the except
               \* clause answers prepare_error with status 500
               /\ request_type = "prepare"
               /\ Answer("invoke", <<session_header, request_type, None>>,
                           <<"prepare_error", "TypeError">>)

(***************************************************************************)
(* tools.py: the three tools.  A call is the run of the tool's function    *)
(* for a resume value: None while the graph has not been resumed, when     *)
(* interrupt(...) suspends the graph with its argument, and the value of   *)
(* Command(resume=...) afterwards, which interrupt(...) returns.  A resume *)
(* value is a dict: its "type" and, when it has the key, its "args".       *)
(***************************************************************************)
\* agent.py:317-322: Command(resume={"type": request.input.get("prompt")})
resume_command(prompt) == [type |-> prompt, args |-> None]

\* the body shared by the three tools, which differ in the name only
threat_tool(tool_name, threats, resume) ==
  IF IsNone(resume)
  THEN <<"interrupt", [payload |-> threats, tool_name |-> tool_name]>>
  ELSE LET response == resume[1]
       IN IF IsNone(response.args)
          THEN \* response.get("args") is None: None has no attribute get
               <<"raise", "AttributeError">>
          ELSE LET errors == response.args[1].error
               IN IF response.type = Some(tool_name) /\ ~TruthyStr(errors)
                  THEN <<"return", None>>
                  ELSE <<"return", Some([error |-> errors])>>

add_threats(threats, resume) == threat_tool("add_threats", threats, resume)
edit_threats(threats, resume) == threat_tool("edit_threats", threats, resume)
delete_threats(threats, resume) == threat_tool("delete_threats", threats, resume)

(***************************************************************************)
(* Calls of the functions that read no state, on bounded sets of           *)
(* arguments.  A behaviour makes one call: the functions read no state,    *)
(* so a call tells nothing about the calls after it.                       *)
(***************************************************************************)
RECURSIVE SeqsUpTo(_, _)
SeqsUpTo(S, n) ==
  IF n = 0 THEN {<<>>}
  ELSE LET T == SeqsUpTo(S, n - 1)
       IN T \cup {Append(t, x) : t \in T, x \in S}

ToolNames ==
  {"add_threats", "ADD_THREATS", "Edit_Threats", "delete_threats",
   "not_a_real_tool"}
PureToolPreferences ==
  {None} \cup {Some(names) : names \in SeqsUpTo(ToolNames, MaxNames)}
PureToolLists == {get_tools_for_preferences(tp) : tp \in PureToolPreferences}
PureContexts ==
  {None, Some(<<>>),
   Some(<<<<"a", "x">>>>), Some(<<<<"a", "y">>>>), Some(<<<<"b", "x">>>>),
   Some(<<<<"a", "x">>, <<"b", "y">>>>), Some(<<<<"b", "y">>, <<"a", "x">>>>)}
PureDiagramPaths == {None, Some(""), Some("a.png"), Some("b.png")}
PureTiers == {-1, 0, 1, 2, 3, 4, 9}
PureContents ==
  {EmptyList, StrContent(""), StrContent("{}"), StrContent("oops"),
   ListContent([type |-> "text", name |-> "", text |-> "hi"]),
   ListContent([type |-> "tool_use", name |-> "add_threats", text |-> ""]),
   ListContent([type |-> "tool_use", name |-> "", text |-> ""]),
   ListContent([type |-> "reasoning_content", name |-> "", text |-> "hm"]),
   ListContent([type |-> "image", name |-> "", text |-> ""])}
PureItems ==
  {RawItem(mode, interrupt, stop, tool, "add_threats", status, content) :
     mode \in {"messages", "updates", "custom"},
     interrupt \in {None, Some("approve")},
     stop \in {"", "end_turn", "tool_use"},
     tool \in BOOLEAN,
     status \in {"success", "error"},
     content \in PureContents}

CallTools ==
  /\ call = NoCall
  /\ \E tp \in PureToolPreferences :
       Answer("get_tools_for_preferences", tp, get_tools_for_preferences(tp))

CallConfig ==
  /\ call = NoCall
  /\ \E budget_level \in PureTiers :
       Answer("create_model_config", budget_level,
                create_model_config(budget_level))

CallClassify ==
  /\ call = NoCall
  /\ \E item \in PureItems : Answer("Classify", item, Classify(item))

\* the hash functions, called for two arguments
CallContextHash ==
  /\ call = NoCall
  /\ \E c1 \in PureContexts, c2 \in PureContexts :
       Answer("get_context_hash", <<c1, c2>>,
                <<get_context_hash(c1), get_context_hash(c2)>>)

CallDiagramHash ==
  /\ call = NoCall
  /\ \E d1 \in PureDiagramPaths, d2 \in PureDiagramPaths :
       Answer("get_diagram_hash", <<d1, d2>>,
                <<get_diagram_hash(d1), get_diagram_hash(d2)>>)

CallToolsHash ==
  /\ call = NoCall
  /\ \E t1 \in PureToolLists, t2 \in PureToolLists :
       Answer("get_tools_hash", <<t1, t2>>,
                <<get_tools_hash(t1), get_tools_hash(t2)>>)

\* the ContentType of a get_object response: absent, an image type, or not
PureResponseTypes ==
  {None, Some(ContentType("image", "png")), Some(ContentType("image", "svg+xml")),
   Some(ContentType("application", "octet-stream")),
   Some(ContentType("binary", "octet-stream")),
   Some(ContentType("text", "plain"))}
PureS3Keys ==
  {S3Key("a", ext) : ext \in {".jpg", ".Jpg", ".jpeg", ".png", ".PNG", ".gif",
                              ".webp", ".WebP", ".bmp", ".dat", ""}}

CallContentType ==
  /\ call = NoCall
  /\ \E response_type \in PureResponseTypes, s3_key \in PureS3Keys :
       Answer("content_type_of", <<response_type, s3_key>>,
                <<content_type_of(response_type, s3_key)>>)

\* the tools' argument (a list of threats, by their names) and the prompts
PureThreats == {<<>>, <<"t1">>}
PurePrompts == {None, Some("add_threats"), Some("edit_threats"),
                Some("delete_threats"), Some("yes")}
\* the dict given to Command(resume=...): the one streaming_invoke makes has
\* no "args"; one with "args" has an "error" that is absent, empty or a text
PureResponses ==
  {[type |-> prompt, args |-> args] :
     prompt \in PurePrompts,
     args \in {None, Some([error |-> None]), Some([error |-> Some("")]),
               Some([error |-> Some("denied")])}}

CallTool ==
  /\ call = NoCall
  /\ \E threats \in PureThreats, resumed \in BOOLEAN, response \in PureResponses :
       LET resume == IF resumed THEN Some(response) ELSE None
       IN \/ Answer("tool", <<"add_threats", threats, resume>>,
                      add_threats(threats, resume))
          \/ Answer("tool", <<"edit_threats", threats, resume>>,
                      edit_threats(threats, resume))
          \/ Answer("tool", <<"delete_threats", threats, resume>>,
                      delete_threats(threats, resume))

vars == <<phase, cacheVars, ghostVars, streamVars, call>>

(***************************************************************************)
(* Properties.                                                             *)
(***************************************************************************)
IsPrefix(s, t) == Len(s) <= Len(t) /\ SubSeq(t, 1, Len(s)) = s

\* the number of facets in which a successful resolution (its record res)
\* differs from the tokens and the tier stored with the cached runtime
FacetDiffs(res) ==
  (IF current_tools_hash # get_tools_hash(res.tools) THEN 1 ELSE 0)
  + (IF current_context_hash # get_context_hash(res.context) THEN 1 ELSE 0)
  + (IF current_diagram_hash # get_diagram_hash(res.diagram) THEN 1 ELSE 0)
  + (IF current_budget_level # res.tier THEN 1 ELSE 0)

\* the stored fingerprint is the fingerprint of the facets f of a request
StoredMatches(f) ==
  /\ current_tools_hash = get_tools_hash(get_tools_for_preferences(f.prefs))
  /\ current_context_hash = get_context_hash(f.context)
  /\ current_diagram_hash = get_diagram_hash(f.diagram)
  /\ ~IsNone(f.budget) => current_budget_level = f.budget[1]

\* the client events of a sequence of raw items
RECURSIVE EventsOf(_)
EventsOf(items) ==
  IF items = <<>> THEN <<>>
  ELSE (IF Classify(Head(items))[1] = "yield"
        THEN <<Classify(Head(items))[2]>> ELSE <<>>) \o EventsOf(Tail(items))

\* C1: when a resolution returns a runtime and the next resolution has the
\* same resolved tool set, the same context, the same artifact reference and
\* the same reasoning tier, the next resolution does not call the Runtime
\* Builder and returns the same runtime instance.
C1_SameFacetsReuse ==
  [][(/\ last.ok /\ last'.ok
      /\ Range(last'.tools) = Range(last.tools)
      /\ last'.context = last.context
      /\ last'.diagram = last.diagram
      /\ last'.tier = last.tier)
     => (builds' = builds /\ last'.agent = last.agent)]_vars

\* C2: a resolution that differs in exactly one facet from the cached facets
\* and completes calls the Runtime Builder exactly once, and afterwards the
\* slot holds the runtime built by that call from the facets of the request,
\* together with the request's preferences, tokens, context and tier.
C2_OneFacetRebuild ==
  [][(last'.ok /\ FacetDiffs(last') = 1)
     => (/\ builds' = builds + 1
         /\ cached_agent' = Some(NewAgent(builds', last'.tools, last'.context, last'.tier))
         /\ cached_agent' # cached_agent
         /\ last'.agent = cached_agent'
         /\ current_tool_preferences' = last'.prefs
         /\ current_tools_hash' = get_tools_hash(last'.tools)
         /\ current_context' = last'.context
         /\ current_context_hash' = get_context_hash(last'.context)
         /\ current_diagram_hash' = get_diagram_hash(last'.diagram)
         /\ current_budget_level' = last'.tier)]_vars

\* a rebuild caused by the context alone has completed after startup
C2_Witness ==
  /\ last.ok /\ builds = 2
  /\ cached_agent = Some(NewAgent(2, ALL_AVAILABLE_TOOLS, Some(ContextA), 1))
  /\ current_context = Some(ContextA)
  /\ IsNone(current_tool_preferences)
  /\ current_diagram_hash = get_diagram_hash(None)

\* C3: when the thread of an admitted streaming request calls the runtime,
\* the fingerprint stored with the cached runtime is the fingerprint of the
\* facets the request carries.
C3_FreshFingerprint ==
  [][\A r \in Req :
       (worker[r] = "queued" /\ worker'[r] = "running" /\ rpc[r] \in Reading)
       => StoredMatches(rq[r])]_vars

\* C4: at most one streaming request is inside the gate and none waits for
\* the permit; a request that arrives while another is inside is rejected
\* as busy in the same step, changes neither the permit nor the cache, and
\* never gets a worker.
C4_BusyFastReject ==
  /\ [](/\ Cardinality({r \in Req : rpc[r] \in InGate}) <= 1
        /\ \A r \in Req : rpc[r] # "waiting"
        /\ \A r \in Req : rpc[r] = "busy" => worker[r] = "none")
  /\ [][\A r \in Req :
          (/\ rpc[r] = "idle" /\ rpc'[r] # "idle"
           /\ \E q \in Req : rpc[q] \in InGate)
          => (/\ rpc'[r] = "busy"
              /\ worker'[r] = "none"
              /\ UNCHANGED <<sem, cacheVars, builds>>)]_vars

\* a request has been rejected while another one is inside the gate
C4_Witness ==
  \E r, q \in Req : rpc[r] = "busy" /\ rpc[q] \in InGate

\* C5: the permit is available exactly when no streaming request is inside
\* the gate; each way of leaving the gate (end of the stream, error,
\* cancellation) gives the one permit back in that step; a request that
\* arrives while the permit is available is admitted.
C5_PermitReleasedOnce ==
  /\ [](/\ sem \in 0..Permits
        /\ sem = Permits - Cardinality({r \in Req : rpc[r] \in InGate}))
  /\ [][\A r \in Req :
          /\ (rpc[r] \in InGate /\ rpc'[r] \notin InGate)
             => (/\ rpc'[r] \in {"closed", "failed", "abandoned"}
                 /\ sem' = sem + 1 /\ sem' = Permits)
          /\ (rpc[r] = "idle" /\ rpc'[r] # "idle" /\ sem = Permits)
             => (rpc'[r] \in InGate /\ sem' = 0)]_vars

\* after a cancelled request, the next request is inside the gate
C5_Witness ==
  \E r, q \in Req : rpc[r] = "abandoned" /\ rpc[q] \in InGate

\* C6: what the consumer of the bridge has observed is always a prefix of
\* what the producer has emitted; when it has observed the "done" marker it
\* has observed every emitted item, in order and once, and it observes
\* nothing after a terminal marker.
C6_BridgeFifo ==
  /\ [](\A r \in Req :
          /\ IsPrefix(observed[r], Emitted(r))
          /\ rpc[r] = "joining"
             => (/\ observed[r] = Emitted(r)
                 /\ ~Failed(r)
                 /\ worker[r] \in {"returning", "terminated"}
                 /\ queue[r] = <<>>))
  /\ [][\A r \in Req :
          (rpc[r] \in {"joining", "yield_error"} /\ rpc'[r] = rpc[r])
          => observed'[r] = observed[r]]_vars

\* the consumer has observed two different items and then the end
C6_Witness ==
  \E r \in Req :
    /\ rpc[r] = "joining"
    /\ Len(observed[r]) >= 2
    /\ observed[r][1] # observed[r][2]

\* C7: once the bridge has handed control back after a terminal marker (it
\* returned after "done" or raised after "error"), the worker of the
\* request has terminated.
C7_WorkerJoined ==
  \A r \in Req :
    (\/ rpc[r] = "closed"
     \/ (/\ rpc[r] = "yield_error"
         /\ events[r] # <<>>
         /\ events[r][Len(events[r])] = ErrorEvent("stream")))
    => worker[r] = "terminated"

\* C8: while the worker of an abandoned request is still running the permit
\* is not available and no other request is inside the gate.
C8_NoWorkerPastRelease ==
  \A r \in Req :
    (rpc[r] = "abandoned" /\ worker[r] \in Alive)
    => (sem = 0 /\ \A q \in Req : rpc[q] \notin InGate)

\* C9: when the producer has failed and the stream has come to its error
\* event, the client stream is the events of all items the producer emitted
\* followed by one error event.
C9_FailureEndsStream ==
  \A r \in Req :
    (rpc[r] = "yield_error" /\ Failed(r))
    => \E why \in {"stream", "classify"} :
         events[r] = EventsOf(Emitted(r)) \o <<ErrorEvent(why)>>

\* C10: a resolution that fails leaves the cache slot as it was.
C10_StaleRuntimeKept ==
  [][~last'.ok => cached_agent' = cached_agent]_vars

\* the facet values stored with the cached runtime
StoredFacets ==
  <<current_tool_preferences, current_tools_hash, current_context,
    current_context_hash, current_diagram_hash, current_diagram_data,
    current_budget_level>>

\* C11: a resolution of the running server that fails changes none of the facet values stored
\* with the runtime cache (preferences, the three tokens, context, artifact
\* data and the reasoning tier), so no state shows values of a build that
\* did not complete.
C11_FacetsOfLastBuild ==
  [][(phase = "serving" /\ ~last'.ok) => StoredFacets' = StoredFacets]_vars

\* C12: an entry of the artifact cache is never removed or replaced, and a
\* resolution of a reference that has an entry does not call the fetch
\* collaborator and returns the stored artifact.
C12_FetchedOnce ==
  [][\A k \in DOMAIN diagram_cache :
       /\ k \in DOMAIN diagram_cache'
       /\ diagram_cache'[k] = diagram_cache[k]
       /\ (~IsNone(last'.asked) /\ get_diagram_hash(last'.asked) = k)
          => (/\ last'.fetch = "none"
              /\ last'.ok => current_diagram_data' = Some(diagram_cache[k]))]_vars

\* a third build has resolved the reference fetched by the second one
C12_Witness ==
  /\ last.ok /\ builds = 3
  /\ last.asked = Some("a.png") /\ last.fetch = "none"
  /\ current_diagram_data = Some(CachedData("a.png"))

\* C13: a resolution whose fetch fails leaves the artifact cache as it was
\* and returns no artifact; a resolution of a reference that has no entry
\* calls the fetch collaborator.
C13_FailedFetchNotStored ==
  [][/\ last'.fetch = "fail"
        => (/\ diagram_cache' = diagram_cache
            /\ last'.ok => IsNone(current_diagram_data'))
     /\ (~IsNone(last'.asked)
         /\ get_diagram_hash(last'.asked) \notin DOMAIN diagram_cache)
        => last'.fetch \in FetchOutcomes]_vars

\* a build has completed without its artifact after a fetch that failed
C13_Witness ==
  /\ last.ok /\ last.asked = Some("a.png") /\ last.fetch = "fail"
  /\ DOMAIN diagram_cache = {}
  /\ IsNone(current_diagram_data)
  /\ current_diagram_hash = get_diagram_hash(Some("a.png"))

\* the registered tools a requested name stands for: the tool of exactly
\* that name, else the tools of that name ignoring case
Registered == Range(ALL_AVAILABLE_TOOLS)
Wanted(name) ==
  IF name \in Registered THEN {name}
  ELSE {t \in Registered : Lower(t) = Lower(name)}
NamesOf(tp) == IF IsNone(tp) THEN <<>> ELSE tp[1]
FirstAt(names, t) == MinOf({i \in 1..Len(names) : t \in Wanted(names[i])})

\* C14: tool resolution selects, for every requested name, the registered
\* tool of exactly that name if there is one and otherwise the registered
\* tool whose name equals it ignoring case; a single name that resolves
\* gives exactly that tool.
C14_ExactThenCaseless ==
  call.fn = "get_tools_for_preferences"
  => LET names == NamesOf(call.arg)
     IN /\ \A i \in 1..Len(names) : Wanted(names[i]) \subseteq Range(call.ret)
        /\ (Len(names) = 1 /\ Wanted(names[1]) # {})
           => \E t \in Wanted(names[1]) : call.ret = <<t>>

\* the case variant has been resolved
C14_Witness ==
  /\ call.fn = "get_tools_for_preferences"
  /\ call.arg = Some(<<"ADD_THREATS">>)
  /\ call.ret = <<"add_threats">>

\* C15: tool resolution returns a result for every selection: when at
\* least one requested name resolves, the resolved tools without the
\* unknown names, each once, in the order of their first occurrence;
\* when none resolves or the selection is unset or empty, the registry.
C15_UnknownDropped ==
  call.fn = "get_tools_for_preferences"
  => LET names == NamesOf(call.arg)
         want == UNION {Wanted(names[i]) : i \in 1..Len(names)}
         R == call.ret
     IN IF want = {} THEN R = ALL_AVAILABLE_TOOLS
        ELSE /\ Range(R) = want
             /\ Len(R) = Cardinality(want)
             /\ \A i, j \in 1..Len(R) :
                  i < j => FirstAt(names, R[i]) < FirstAt(names, R[j])

\* a tool requested twice, under two spellings, has been returned once
C15_Witness ==
  /\ call.fn = "get_tools_for_preferences"
  /\ call.arg = Some(<<"ADD_THREATS", "add_threats">>)
  /\ call.ret = <<"add_threats">>

\* C16: the classifier gives an interrupt event for an update with an
\* interrupt marker; for a message chunk the end event alone when the stop
\* reason is end_turn, else nothing when the content is empty, else a
\* tool_result event with the tool name and the error flag for a tool
\* message, else tool_start, text or thinking for a content item of type
\* tool_use with a name, text or reasoning_content.
C16_ClassifierTable ==
  call.fn = "Classify"
  => LET item == call.arg
         c == call.ret
         first == item.content.first
     IN IF item.mode = "updates" /\ ~IsNone(item.interrupt)
        THEN c = <<"yield", <<"interrupt", item.interrupt[1]>>>>
        ELSE IF item.mode # "messages" THEN TRUE
        ELSE IF item.stopReason = "end_turn" THEN c = <<"yield", <<"end">>>>
        ELSE IF Falsy(item.content) THEN c = <<"skip">>
        ELSE IF item.isToolMessage
        THEN /\ c[1] = "yield"
             /\ Len(c[2]) = 5
             /\ c[2][1] = "tool" /\ c[2][2] = item.name /\ c[2][3] = FALSE
             /\ c[2][5] = (item.status = "error")
        ELSE IF item.content.kind # "list" THEN TRUE
        ELSE /\ (first.type = "tool_use" /\ first.name # "")
                => c = <<"yield", <<"tool", first.name, TRUE>>>>
             /\ first.type = "text" => c = <<"yield", <<"text", first.text>>>>
             /\ first.type = "reasoning_content"
                => c = <<"yield", <<"thinking", first.text>>>>

\* C17: the configuration of tier 0 has no extended reasoning; that of any
\* other tier has reasoning enabled with the interleaved-reasoning flag and
\* a budget of 8000 (tier 1), 16000 (tier 2), 31999 (tier 3), and 8000 for
\* a tier outside 0..3.
C17_TierBudget ==
  call.fn = "create_model_config"
  => LET tier == call.arg
         config == call.ret
     IN IF tier = 0
        THEN IsNone(config.thinking) /\ IsNone(config.anthropic_beta)
        ELSE /\ config.thinking =
                  Some([type |-> "enabled",
                        budget_tokens |-> CASE tier = 1 -> 8000
                                            [] tier = 2 -> 16000
                                            [] tier = 3 -> 31999
                                            [] OTHER -> 8000])
             /\ config.anthropic_beta = Some(<<"interleaved-thinking-2025-05-14">>)

\* the configuration of an out-of-range tier has been built
C17_Witness ==
  /\ call.fn = "create_model_config"
  /\ call.arg = 9
  /\ call.ret.thinking = Some([type |-> "enabled", budget_tokens |-> 8000])

\* two contexts with the same keys and values (an absent one has none)
SameContext(c1, c2) == Range(NamesOf(c1)) = Range(NamesOf(c2))

\* C20: an absent and an empty context give the "no_context" token; two
\* contexts give the same token exactly when they have the same keys and
\* values; two tool lists give the same token exactly when they hold the
\* same tools; an absent artifact reference gives "no_diagram" and two
\* references give the same token exactly when they are equal.
C20_FingerprintOfFacets ==
  /\ call.fn = "get_context_hash"
     => /\ \A i \in 1..2 :
             NamesOf(call.arg[i]) = <<>> => call.ret[i] = <<"no_context">>
        /\ SameContext(call.arg[1], call.arg[2]) <=> call.ret[1] = call.ret[2]
  /\ call.fn = "get_tools_hash"
     => (Range(call.arg[1]) = Range(call.arg[2]) <=> call.ret[1] = call.ret[2])
  /\ call.fn = "get_diagram_hash"
     => /\ \A i \in 1..2 :
             IsNone(call.arg[i]) => call.ret[i] = <<"no_diagram">>
        /\ call.arg[1] = call.arg[2] <=> call.ret[1] = call.ret[2]

\* C18: a ping, tools or history request with a session token is answered
\* whatever the permit counter is, never as busy, and leaves the gate and
\* the streaming requests as they are; so does every resolution made
\* outside the arrival of a streaming request (a prepare request).
C18_LightBypassGate ==
  [][/\ (/\ call' # call /\ call'.fn = "invoke"
          /\ TruthyStr(call'.arg[1])
          /\ call'.arg[2] \in {"ping", "tools", "history"})
        => (/\ call'.ret[1] \in {"pong", "available_tools", "history",
                                  "AttributeError"}
            /\ UNCHANGED streamVars)
     /\ (/\ cacheVars' # cacheVars \/ ghostVars' # ghostVars
         /\ \A r \in Req : ~(rpc[r] = "idle" /\ rpc'[r] # "idle"))
        => UNCHANGED streamVars]_vars

\* a ping has been answered while a streaming request held the permit, and
\* a prepare has emptied the slot under a running worker of that request
C18_Witness ==
  /\ call.fn = "invoke" /\ call.ret = <<"pong">> /\ call.sem = 0
  /\ \E r \in Req :
       rpc[r] = "streaming" /\ worker[r] = "running" /\ IsNone(cached_agent)

\* C19: a request of any type without a session token is answered with
\* MissingHeader, and the runtime cache, the artifact cache, the builder
\* count, the gate, the streaming requests and their workers are the same
\* after it as before.
C19_NoSessionNoEffect ==
  [][(/\ call' # call /\ call'.fn = "invoke"
      /\ ~TruthyStr(call'.arg[1]))
     => (/\ call'.ret = <<"MissingHeader">>
         /\ UNCHANGED <<phase, cacheVars, ghostVars, streamVars>>)]_vars

\* a streaming request without a session token has been rejected while
\* another request held the permit
C19_Witness ==
  /\ call.fn = "invoke" /\ call.arg = <<None, "chat">>
  /\ call.ret = <<"MissingHeader">> /\ call.sem = 0

\* C21: whatever resolutions (prepare requests, arrivals of streaming
\* requests) have run and in whatever order, the cache state of the serving
\* process is entirely that of one build: the slot holds a runtime, and the
\* stored tier, the stored tool and context tokens and the stored artifact
\* data are those the runtime in the slot was built with.
C21_OneBuildState ==
  phase = "serving" =>
    /\ ~IsNone(cached_agent)
    /\ cached_agent[1].tier = current_budget_level
    /\ current_tools_hash = get_tools_hash(cached_agent[1].tools)
    /\ cached_agent[1].prompt = PromptContext(current_context)
    /\ current_context_hash = get_context_hash(current_context)
    /\ \/ IsNone(current_diagram_data)
       \/ \E dp \in DiagramPaths :
            /\ TruthyStr(dp)
            /\ current_diagram_hash = get_diagram_hash(dp)
            /\ current_diagram_data = Some(CachedData(dp[1]))

\* C22: when the other collaborators of a build return, a resolution whose
\* artifact fetch fails still succeeds: the Runtime Builder is called once,
\* the slot holds the runtime it returned, the stored tokens are those of
\* the request (the artifact token included) and the stored artifact data
\* is null.
C22_FailedFetchStillBuilds ==
  [][last'.fetch = "fail"
     => /\ last'.ok
        /\ builds' = builds + 1
        /\ cached_agent' = Some(NewAgent(builds', last'.tools, last'.context,
                                         last'.tier))
        /\ current_tool_preferences' = last'.prefs
        /\ current_tools_hash' = get_tools_hash(last'.tools)
        /\ current_context_hash' = get_context_hash(last'.context)
        /\ current_diagram_hash' = get_diagram_hash(last'.asked)
        /\ current_budget_level' = last'.tier
        /\ IsNone(current_diagram_data')
        /\ diagram_cache' = diagram_cache]_vars

\* a runtime built for a reference whose fetch failed is in the slot
C22_Witness ==
  /\ phase = "serving" /\ last.ok /\ last.fetch = "fail"
  /\ last.asked = Some("a.png")
  /\ cached_agent = Some(NewAgent(builds, last.tools, last.context, last.tier))
  /\ current_diagram_hash = get_diagram_hash(Some("a.png"))
  /\ IsNone(current_diagram_data)

\* the media type an extension stands for, compared ignoring case
ExtensionType(ext) ==
  CASE LowerExt(ext) \in {".jpg", ".jpeg"} -> Some(ContentType("image", "jpeg"))
    [] LowerExt(ext) = ".png" -> Some(ContentType("image", "png"))
    [] LowerExt(ext) = ".gif" -> Some(ContentType("image", "gif"))
    [] LowerExt(ext) = ".webp" -> Some(ContentType("image", "webp"))
    [] LowerExt(ext) = ".bmp" -> Some(ContentType("image", "bmp"))
    [] OTHER -> None

\* C23: the media type stored with a fetched artifact is the type of the
\* fetch response when that is an image type; otherwise, and when the
\* response gives no type, it is the type of the path's extension, and
\* image/jpeg only when the extension determines none.
C23_MediaType ==
  call.fn = "content_type_of" =>
    LET response_type == call.arg[1]
        s3_key == call.arg[2]
    IN IF ~IsNone(response_type) /\ response_type[1].kind = "image"
       THEN call.ret[1] = response_type[1]
       ELSE IF ~IsNone(ExtensionType(s3_key.ext))
       THEN call.ret[1] = ExtensionType(s3_key.ext)[1]
       ELSE call.ret[1] = ContentType("image", "jpeg")

\* C24: a tool-result message with non-empty content, whatever the shape
\* of the content, is classified as a tool_result event that carries the
\* parsed value when the content parses as JSON and the raw content when
\* it does not; it never fails the classifier.
C24_ToolResultAnyShape ==
  (/\ call.fn = "Classify"
   /\ call.arg.mode = "messages" /\ call.arg.stopReason # "end_turn"
   /\ call.arg.isToolMessage /\ ~Falsy(call.arg.content))
  => LET item == call.arg
         c == call.ret
         parsed == IF item.content.kind = "str"
                   THEN json_loads(item.content.str) ELSE None
     IN /\ c[1] = "yield"
        /\ c[2] = <<"tool", item.name, FALSE,
                    IF ~IsNone(parsed) THEN parsed[1]
                    ELSE IF item.content.kind = "str"
                    THEN <<"raw", item.content.str>>
                    ELSE <<"raw", item.content>>,
                    item.status = "error">>

\* the shapes that match no row of the classifier table
Unmatched(item) ==
  \/ item.mode = "updates" /\ IsNone(item.interrupt)
  \/ item.mode \notin {"updates", "messages"}
  \/ /\ item.mode = "messages" /\ item.stopReason # "end_turn"
     /\ ~item.isToolMessage /\ ~Falsy(item.content)
     /\ \/ item.content.kind # "list"
        \/ item.content.first.type \notin {"tool_use", "text", "reasoning_content"}
        \/ item.content.first.type = "tool_use" /\ item.content.first.name = ""

\* C25: a raw item whose shape matches no row of the classifier table (an
\* update without interrupt, an unknown mode, a content item of unknown
\* type, a tool invocation without a name, a chunk whose content is plain
\* text) is skipped: no event, no failure.
C25_UnmatchedSkipped ==
  (call.fn = "Classify" /\ Unmatched(call.arg)) => call.ret = <<"skip">>

\* C26: an entry of the artifact cache, once stored, is there with the same
\* value after every step, and the entry of a reference is the artifact of
\* that reference whatever has been stored for other references.
C26_EntriesKept ==
  [][/\ \A k \in DOMAIN diagram_cache :
          k \in DOMAIN diagram_cache' /\ diagram_cache'[k] = diagram_cache[k]
     /\ \A dp \in ArtifactPaths :
          (TruthyStr(dp) /\ get_diagram_hash(dp) \in DOMAIN diagram_cache')
          => diagram_cache'[get_diagram_hash(dp)] = CachedData(dp[1])
     /\ DOMAIN diagram_cache' \subseteq
          {get_diagram_hash(dp) : dp \in ArtifactPaths \ {None}}]_vars

\* both references have their entry, the second stored after the first
C26_Witness ==
  /\ DOMAIN diagram_cache
       = {get_diagram_hash(Some("a.png")), get_diagram_hash(Some("b.png"))}
  /\ diagram_cache[get_diagram_hash(Some("a.png"))] = CachedData("a.png")
  /\ diagram_cache[get_diagram_hash(Some("b.png"))] = CachedData("b.png")
  /\ last.asked = Some("b.png") /\ last.fetch = "ok"

\* the requests whose generator has ended
Ended == {"closed", "failed", "abandoned"}

\* C27: when the producer of a request has left its loop (stream exhausted
\* or failed, the terminal marker handed over) while the request is being
\* streamed, then under fair scheduling of the worker thread and of the
\* consumer the consumer stops reading, and the stream ends with the
\* permit given back.
C27_ProducerEndEndsStream ==
  \A r \in Req :
    (worker[r] = "returning" /\ rpc[r] = "streaming")
    ~> (rpc[r] \in Ended /\ sem = Permits)

\* a stream has ended after its producer was exhausted and joined, with
\* items delivered before the marker
C27_Witness ==
  \E r \in Req :
    /\ rpc[r] = "joining" /\ worker[r] = "terminated"
    /\ Len(events[r]) >= 1 /\ queue[r] = <<>>

\* C28: once startup has built the default runtime the slot holds a runtime
\* in every state, also after a rebuild that failed, and a history request
\* with a session token is answered from a runtime.
C28_SlotNeverEmpty ==
  /\ phase = "serving" => ~IsNone(cached_agent)
  /\ (/\ call.fn = "invoke" /\ TruthyStr(call.arg[1])
      /\ call.arg[2] = "history")
     => call.ret[1] = "history"

\* C29: a prepare request with a session token and without a budget level
\* is not answered with an error, and no streaming request ends with the
\* error of a missing budget level.
C29_MissingTierDefaults ==
  /\ (/\ call.fn = "invoke" /\ TruthyStr(call.arg[1])
      /\ call.arg[2] = "prepare" /\ IsNone(call.arg[3]))
     => call.ret[1] # "prepare_error"
  /\ \A r \in Req : ErrorEvent("TypeError") \notin Range(events[r])

\* a resume value carries an error
CarriesError(response) ==
  ~IsNone(response.args) /\ TruthyStr(response.args[1].error)

\* C30: a tool run before the resumption suspends the graph with an
\* interrupt of its payload and its own name; run for a resume value it
\* returns, with an error result exactly when the value's type is not the
\* tool's name or the value carries an error; for the resume value made
\* from a resume_interrupt request whose prompt is the tool's name it
\* returns without an error result.
C30_ToolResume ==
  call.fn = "tool" =>
    LET tool_name == call.arg[1]
        threats == call.arg[2]
        resume == call.arg[3]
    IN IF IsNone(resume)
       THEN call.ret = <<"interrupt",
                         [payload |-> threats, tool_name |-> tool_name]>>
       ELSE /\ call.ret[1] = "return"
            /\ ~IsNone(call.ret[2])
               <=> (resume[1].type # Some(tool_name) \/ CarriesError(resume[1]))
            /\ resume[1] = resume_command(Some(tool_name))
               => call.ret = <<"return", None>>

NextLight ==
  \/ Startup
  \/ PrepareSmall
  \/ Invoke
  \/ \E r \in Req :
       \/ StreamArrive(r)
       \/ WorkerStart(r)
       \/ WorkerExhaust(r)
       \/ WorkerFail(r)
       \/ WorkerReturn(r)
       \/ Consume(r)
       \/ Join(r)
       \/ Finish(r)
       \/ Abandon(r)
SpecLight == Init /\ [][NextLight]_vars

NextPure ==
  \/ CallTools
  \/ CallConfig
  \/ CallClassify
  \/ CallContextHash
  \/ CallDiagramHash
  \/ CallToolsHash
  \/ CallContentType
  \/ CallTool
SpecPure == Init /\ [][NextPure]_vars

NextCache == Startup \/ Prepare
SpecCache == Init /\ [][NextCache]_vars

NextBuilt == Startup \/ PrepareBuilt
SpecBuilt == Init /\ [][NextBuilt]_vars

NextArtifact == Startup \/ PrepareArtifact
SpecArtifact == Init /\ [][NextArtifact]_vars

Next ==
  \/ Startup
  \/ PrepareSmall
  \/ \E r \in Req :
       \/ StreamArrive(r)
       \/ WorkerStart(r)
       \/ WorkerEmit(r)
       \/ WorkerExhaust(r)
       \/ WorkerFail(r)
       \/ WorkerReturn(r)
       \/ Consume(r)
       \/ Join(r)
       \/ Finish(r)
       \/ Abandon(r)
Spec == Init /\ [][Next]_vars

\* the thread of the pool runs process_stream to its return, and the event
\* loop resumes a generator whose awaited queue entry or future is ready
Fairness ==
  \A r \in Req :
    /\ WF_vars(WorkerReturn(r))
    /\ WF_vars(Consume(r))
    /\ WF_vars(Join(r))
    /\ WF_vars(Finish(r))
\* the streaming requests of a process whose runtime was built at startup
NextLive ==
  \/ Startup
  \/ \E r \in Req :
       \/ StreamArrive(r)
       \/ WorkerStart(r)
       \/ WorkerEmit(r)
       \/ WorkerExhaust(r)
       \/ WorkerFail(r)
       \/ WorkerReturn(r)
       \/ Consume(r)
       \/ Join(r)
       \/ Finish(r)
       \/ Abandon(r)
SpecLive == Init /\ [][NextLive]_vars /\ Fairness

====
